---- MODULE Spec2Model ----
\* Cross-widget selection bus of the fusedmaps dashboard widgets:
\*   chart1.py  scatter plot          (source tag 'scatter_plot')
\*   chart2.py  bar chart, crop filter (source tag 'histogram')
\*   chart3.py  bar chart, year filter (source tag 'histogram')
\*   selector.py / bcg_dropdown.py     location selectors (publish only)
\* Each widget lives in its own frame; the frames exchange messages over a
\* BroadcastChannel and window.postMessage.
EXTENDS Integers, Sequences, FiniteSets, TLC

\* ---------------------------------------------------------------- bounds
\* most message copies posted to one frame and not yet dispatched
MaxInFlight == 1
\* most sends of one publish call that throw
MaxFaults == 1

\* ------------------------------------------------------- JavaScript values
\* Strings stand for themselves; the other JavaScript values that a message
\* field can hold are tagged.
Undef == "<undefined>"
Null == "<null>"
Zero == "<0>"
Empty == ""
Blank == " "
\* the number Infinity
Inf == "<Infinity>"

\* !v
Falsy(v) == v \in {Undef, Null, Zero, Empty}
\* v != null
NotNullish(v) == v \notin {Undef, Null}
\* String(v)
Str(v) ==
  CASE v = Zero -> "0" [] v = Inf -> "Infinity" [] OTHER -> v
\* s.trim()
Trim(s) == IF s = Blank THEN Empty ELSE s
\* what JSON.parse(JSON.stringify(...)) makes of a field value: a number
\* that is not finite is written as null; a key whose value is undefined is
\* left out and reads as undefined again
JsonValue(v) == IF v = Inf THEN Null ELSE v
\* a || b
JsOr(a, b) == IF Falsy(a) THEN b ELSE a
\* a ?? b
JsCoalesce(a, b) == IF NotNullish(a) THEN a ELSE b

\* ------------------------------------------------------------- the widgets
Scatter == "scatter"
Bar2 == "bar2"
Bar3 == "bar3"
Selector == "selector"
Dropdown == "dropdown"
Charts == {Scatter, Bar2, Bar3}
Bars == {Bar2, Bar3}
Selectors == {Selector, Dropdown}
Widgets == Charts \cup Selectors

\* the value each widget writes into the 'source' field of what it publishes
SourceTag(w) ==
  CASE w = Scatter -> "scatter_plot"
    [] w \in Bars -> "histogram"
    [] OTHER -> Undef

\* the value each widget writes into 'fromComponent'
ComponentId(w) ==
  CASE w = Selector -> "location-selector-a"
    [] w = Dropdown -> "location-selector-b"
    [] OTHER -> Undef

\* ------------------------------------------------------------------- data
Fields == {"F1", "F2"}
\* rows of each chart (identified by "Field Name")
AllData(w) == Fields
\* chart2: CROP_COL value of a row.  The data of chart3 has no year column
\* (YEAR_COL is null), so chart3 shows every row and has no filter buttons.
FilterKey(w, f) ==
  CASE w = Bar2 -> (IF f = "F1" THEN "Irrigated Cotton" ELSE "Wheat")
    [] OTHER -> Undef
AllKeys(w) == IF w = Bar2 THEN {FilterKey(w, f) : f \in AllData(w)} ELSE {}
\* histogram bins of a scatter row: top (openness), right (smoothness)
Bins(f) == IF f = "F1" THEN {<<"top", 1>>, <<"right", 2>>}
                       ELSE {<<"top", 2>>, <<"right", 2>>}

\* ---------------------------------------------------------------- messages
IdKeys == {"Field Name", "FIELD_NAME", "field_name", "name"}
NoProps == [k \in IdKeys |-> Undef]
\* msg.location of a message that has none
NoLoc == [name |-> Undef, field |-> Undef, farm |-> Undef, bounds |-> Undef, center |-> Undef]

\* A message object.  props is msg.properties (NoProps when the message has
\* no properties object), top holds the same keys read from the message
\* itself.
Msg(type, source, from, props, top, selType, loc) ==
  [type |-> type, mtype |-> Undef, source |-> source, fromComponent |-> from,
   props |-> props, top |-> top, selectionType |-> selType, location |-> loc]

\* the MessageEvent that a BroadcastChannel hands to onmessage, read as if it
\* were a message: type is the event type, source is null, the rest is absent
EventAsMsg == Msg("message", Null, Undef, NoProps, NoProps, Undef, NoLoc)

\* a falsy payload (null, undefined, 0, '')
NoMsg == Msg(Undef, Undef, Undef, NoProps, NoProps, Undef, NoLoc)

\* chart1.sendMessageToMap
FeatureClick1(f) ==
  Msg("feature_click", "scatter_plot", Undef,
      [NoProps EXCEPT !["Field Name"] = f], [NoProps EXCEPT !["Field Name"] = f],
      Undef, NoLoc)
\* chart2/chart3.sendMessageToMap
FeatureClick2(f) ==
  Msg("feature_click", "histogram", Undef,
      [NoProps EXCEPT !["Field Name"] = f], NoProps, Undef, NoLoc)
\* chart1.broadcastClearSelection, chart2/chart3 background click
ClearMsg(w) ==
  Msg("clear_selection", SourceTag(w), Undef, NoProps, NoProps, Undef, NoLoc)

\* ----------------------------------------------------- widget-local state
\* sel  : currentSelection
\* hl   : entities carrying class 'highlighted'
\* dm   : entities carrying class 'dimmed'
\* hist : histogram bars of the scatter plot carrying class 'highlighted'
\* filt : selectedCrops / selectedYears of a bar chart
Shown(w, filt) ==
  IF w \notin Bars \/ filt = {} THEN AllData(w)
  ELSE {f \in AllData(w) : FilterKey(w, f) \in filt}

\* chart1.clearSelection
clearSelection1(s) ==
  [s EXCEPT !.hl = {}, !.dm = {}, !.hist = {}, !.sel = Null]

\* chart1.highlightField (the definition installed by initChart)
highlightField1(s, fieldName, found) ==
  [s EXCEPT !.hl = {d \in AllData(Scatter) : d = fieldName},
            !.dm = {d \in AllData(Scatter) : d # fieldName},
            !.hist = IF found THEN Bins(fieldName) ELSE s.hist]

\* chart2/chart3.clearSelection
clearSelection2(s) ==
  [s EXCEPT !.hl = {}, !.dm = {}, !.sel = Null]

\* highlightField toggles like the click handler does
highlightField2_toggle(w, s, fieldName) ==
  IF s.sel = fieldName THEN clearSelection2(s)
  ELSE [s EXCEPT !.hl = {d \in Shown(w, s.filt) : d = fieldName},
                 !.dm = {d \in Shown(w, s.filt) : d # fieldName},
                 !.sel = fieldName]

\* chart2/chart3.highlightField
highlightField2(w, s, fieldName) ==
  [s EXCEPT !.hl = {d \in Shown(w, s.filt) : d = fieldName},
            !.dm = {d \in Shown(w, s.filt) : d # fieldName},
            !.sel = fieldName]

\* chart1: initChart on resize; chart2/chart3: updateChart.  The chart is
\* rebuilt from the data, currentSelection is not touched.
Redrawn(s) == [s EXCEPT !.hl = {}, !.dm = {}, !.hist = {}]

\* ------------------------------------------------------- inbound handlers
ID_FIELDS1 == <<"Field Name">>
ID_FIELDS2 == <<"Field Name", "FIELD_NAME", "field_name", "name">>

\* chart1.handleMessage, the loop over ID_FIELDS: itemId keeps the last
\* value read when no field breaks the loop
RECURSIVE ItemIdLoop1(_, _, _)
ItemIdLoop1(m, i, cur) ==
  IF i > Len(ID_FIELDS1) THEN cur
  ELSE LET v == JsOr(m.props[ID_FIELDS1[i]], m.top[ID_FIELDS1[i]])
       IN IF NotNullish(v) /\ v # Empty THEN v ELSE ItemIdLoop1(m, i + 1, v)
ItemId1(m) == ItemIdLoop1(m, 1, Null)

\* chart2/chart3.getIdFromMessage
RECURSIVE GetIdLoop(_, _)
GetIdLoop(m, i) ==
  IF i > Len(ID_FIELDS2) THEN Null
  ELSE LET v == JsCoalesce(m.props[ID_FIELDS2[i]], m.top[ID_FIELDS2[i]])
       IN IF NotNullish(v) /\ Trim(Str(v)) # Empty THEN v ELSE GetIdLoop(m, i + 1)
getIdFromMessage(m) == GetIdLoop(m, 1)

\* the guard compares with a tag no widget writes
EchoGuard_wrongTag(w, m) == m.source = "scatter"

\* the self-tag test at the head of handleMessage
EchoGuard(w, m) == m.source = SourceTag(w)

MsgType(m) == JsOr(m.type, m.mtype)

\* the handler without the test that ends it on other types
handleMessage1_anyType(s, m) ==
  IF m = NoMsg THEN s
  ELSE IF EchoGuard(Scatter, m) THEN s
  ELSE IF MsgType(m) \in {"clear_selection", "feature_deselect"} THEN clearSelection1(s)
  ELSE LET itemId == ItemId1(m)
       IN IF Falsy(itemId) THEN s
          ELSE [highlightField1(s, itemId, itemId \in AllData(Scatter))
                  EXCEPT !.sel = itemId]

\* chart1.handleMessage
handleMessage1(s, m) ==
  IF m = NoMsg THEN s
  ELSE IF EchoGuard(Scatter, m) THEN s
  ELSE IF MsgType(m) \in {"clear_selection", "feature_deselect"} THEN clearSelection1(s)
  ELSE IF MsgType(m) \notin {"hex_click", "feature_click"} THEN s
  ELSE LET itemId == ItemId1(m)
       IN IF Falsy(itemId) THEN s
          ELSE [highlightField1(s, itemId, itemId \in AllData(Scatter))
                  EXCEPT !.sel = itemId]

\* a feature_click without identity is taken for a clear
handleMessage2_clearOnNoId(w, s, m) ==
  IF m = NoMsg \/ EchoGuard(w, m) THEN s
  ELSE IF MsgType(m) \in {"clear_selection", "feature_deselect"} THEN clearSelection2(s)
  ELSE IF MsgType(m) \notin {"hex_click", "feature_click"} THEN s
  ELSE LET itemId == getIdFromMessage(m)
       IN IF Falsy(itemId) THEN clearSelection2(s) ELSE highlightField2(w, s, Str(itemId))

\* a location_change is taken for a click on the location it names
handleMessage2_locationAsClick(w, s, m) ==
  IF m = NoMsg \/ EchoGuard(w, m) THEN s
  ELSE IF MsgType(m) \in {"clear_selection", "feature_deselect"} THEN clearSelection2(s)
  ELSE IF MsgType(m) = "location_change" THEN highlightField2(w, s, m.location.name)
  ELSE IF MsgType(m) \notin {"hex_click", "feature_click"} THEN s
  ELSE LET itemId == getIdFromMessage(m)
       IN IF Falsy(itemId) THEN s ELSE highlightField2(w, s, Str(itemId))

\* chart2/chart3.handleMessage
handleMessage2(w, s, m) ==
  IF m = NoMsg \/ EchoGuard(w, m) THEN s
  ELSE IF MsgType(m) \in {"clear_selection", "feature_deselect"} THEN clearSelection2(s)
  ELSE IF MsgType(m) \notin {"hex_click", "feature_click"} THEN s
  ELSE LET itemId == getIdFromMessage(m)
       IN IF Falsy(itemId) THEN s ELSE highlightField2(w, s, Str(itemId))

handleMessage(w, s, m) ==
  IF w = Scatter THEN handleMessage1(s, m) ELSE handleMessage2(w, s, m)

\* ------------------------------------------------------------------ state
VARIABLES
  chart,    \* chart widget -> [sel, hl, dm, hist, filt]
  winQ,     \* chart widget -> messages posted to its window, not yet dispatched
  bcQ,      \* chart widget -> messages on the BroadcastChannel, not yet dispatched to it
  nested,   \* TRUE: the widget frames sit in a container frame (window.top # window.parent)
  bcOK,     \* TRUE: 'BroadcastChannel' in window, so bc is not null
  tracked,  \* the widget instances whose state and inbound queues are followed;
            \* the other widgets of the dashboard are part of the surroundings
  boot,     \* followed selector -> its default_location_name, "fired" once the
            \* timer set at load has run
  last      \* the handler that ran last and what it did
vars == <<chart, winQ, bcQ, nested, bcOK, tracked, boot, last>>

\* a message in transit: repr is what event.data is ("obj": the structured
\* clone of m, "json": the text JSON.stringify(m)); origin is the instance
\* that published it
Packet(repr, m, origin) == [repr |-> repr, m |-> m, origin |-> origin]

NoPkt == Packet("none", NoMsg, "")

\* currentSelection before a handler ran, set against ref: the entity the
\* user clicked, or currentSelection after an inbound handler ran
PreOf(before, ref) ==
  IF before = Null THEN "idle" ELSE IF before = ref THEN "same" ELSE "other"

\* op: the handler; w: the widget it ran in; arg: the entity the user
\* clicked; pkt, path: the message it published or was given and the path it
\* came by; pre: PreOf currentSelection before it ran; steps: the sends the
\* publish call contains; attempted: the sends it reached; faulty: one of
\* them threw; raised: the call threw to its caller; pubSel, pubHl:
\* currentSelection and the highlighted entities when the publish call began;
\* pubs: where several charts are followed, what their user handlers
\* published since the page was last quiet, in order
NoLast ==
  [op |-> "init", w |-> "", arg |-> "", pkt |-> NoPkt, path |-> "", pre |-> "",
   steps |-> {}, attempted |-> {}, faulty |-> FALSE, raised |-> FALSE,
   pubSel |-> Null, pubHl |-> {}, pubs |-> <<>>]

\* chart2.initializeFilters selects 'Irrigated Cotton' only
InitFilter(w) == IF w = Bar2 THEN {"Irrigated Cotton"} ELSE {}

\* default_location_name of a selector: None, the name of a location,
\* another name
DefaultNames == {Null, "F2", "ZZ"}

\* the sets of widget instances that are followed together
Dashboards == {{w} : w \in Widgets}

Init ==
  /\ chart = [w \in Charts |->
               [sel |-> Null, hl |-> {}, dm |-> {}, hist |-> {}, filt |-> InitFilter(w)]]
  /\ winQ = [w \in Charts |-> <<>>]
  /\ bcQ = [w \in Charts |-> <<>>]
  /\ nested \in BOOLEAN
  /\ bcOK \in BOOLEAN
  /\ nested => bcOK
  /\ tracked \in Dashboards
  /\ boot \in [tracked \cap Selectors -> DefaultNames]
  /\ last = NoLast

\* ------------------------------------------------------------- the fan-out
\* The sends of one publish call, in the order the code makes them.
\*   "raw" : chart1.sendMessageToMap          bc, parent, self; no try/catch
\*   "bus" : busSend of chart2/chart3 and chart1.broadcastClearSelection
\*   "sel" : busSend of selector.py/bcg_dropdown.py (no send to self)
Container == "container"
\* the frames of the top window: the container, or the three charts and the
\* widgets that are followed
TopFrames == IF nested THEN {Container} ELSE Charts \cup tracked
Rank(p) ==
  CASE p = "bc" -> 1 [] p = "parent" -> 2 [] p = "self" -> 3 [] p = "top" -> 4
    [] OTHER -> 5

Steps(w, style) ==
  (IF bcOK THEN {"bc"} ELSE {})
  \cup {"parent"}
  \cup (IF style # "sel" THEN {"self"} ELSE {})
  \cup (IF style # "raw" /\ nested THEN {"top"} ELSE {})
  \cup (IF style # "raw" THEN TopFrames \ {w} ELSE {})

\* try/catch around every send: a throwing send stops nothing.  Without it the
\* first throwing send ends the function.
Isolated(style) == style # "raw"
Attempted(w, style, thr) ==
  IF Isolated(style) THEN Steps(w, style)
  ELSE {p \in Steps(w, style) : \A q \in thr \cap Steps(w, style) : Rank(p) <= Rank(q)}
Raised(w, style, thr) == ~Isolated(style) /\ thr \cap Steps(w, style) # {}
Sent(w, style, thr) == Attempted(w, style, thr) \ thr

\* what the window-path sends carry: the object itself or its JSON text
WinRepr(style) == IF style = "raw" THEN "obj" ELSE "json"

\* copies of one publish that reach bc.onmessage of a followed chart (a
\* BroadcastChannel object does not receive what is posted through itself)
BcCopies(w, style, thr, c) ==
  IF c \in tracked /\ c # w /\ "bc" \in Sent(w, style, thr) THEN 1 ELSE 0

\* copies of one publish that reach the window listener of a followed chart
WinCopies(w, style, thr, c) ==
  IF c \notin tracked THEN 0
  ELSE IF c = w THEN (IF "self" \in Sent(w, style, thr) THEN 1 ELSE 0)
  ELSE (IF c \in Sent(w, style, thr) THEN 1 ELSE 0)

\* number of copies posted to the frame of c and not yet dispatched
InFlight(c) == Len(winQ[c]) + Len(bcQ[c])

Room(w, style, thr) ==
  \A c \in Charts :
    /\ Len(winQ[c]) + WinCopies(w, style, thr, c) <= MaxInFlight
    /\ Len(bcQ[c]) + BcCopies(w, style, thr, c) <= MaxInFlight

Publish(w, style, m, thr) ==
  /\ winQ' = [c \in Charts |->
               IF WinCopies(w, style, thr, c) = 1
               THEN Append(winQ[c], Packet(WinRepr(style), m, w)) ELSE winQ[c]]
  /\ bcQ' = [c \in Charts |->
              IF BcCopies(w, style, thr, c) = 1
              THEN Append(bcQ[c], Packet("obj", m, w)) ELSE bcQ[c]]

\* nothing is in flight
Quiet == \A c \in Charts : winQ[c] = <<>> /\ bcQ[c] = <<>>

Pubs(w, m) ==
  IF Cardinality(tracked) < 2 THEN <<>>
  ELSE IF Quiet THEN <<[w |-> w, m |-> m]>>
  ELSE Append(last.pubs, [w |-> w, m |-> m])

PubLast(op, w, arg, style, m, thr, pre, atSend) ==
  [op |-> op, w |-> w, arg |-> arg, pkt |-> Packet(WinRepr(style), m, w),
   path |-> "", pre |-> pre,
   steps |-> Steps(w, style), attempted |-> Attempted(w, style, thr),
   faulty |-> thr \cap Attempted(w, style, thr) # {},
   raised |-> Raised(w, style, thr),
   pubSel |-> atSend.sel, pubHl |-> atSend.hl, pubs |-> Pubs(w, m)]

FaultSets(w, style) == {t \in SUBSET Steps(w, style) : Cardinality(t) <= MaxFaults}

\* ------------------------------------------------------------ user actions
\* chart1: click on a dot.  The handler calls event.stopPropagation() and the
\* svg handler returns when the target is inside a '.dot', so the background
\* handler does not run for this click.
ClickDot(f) ==
  /\ Scatter \in tracked
  /\ \E thr \in FaultSets(Scatter, "raw") :
    LET m == FeatureClick1(f)
        s1 == highlightField1(clearSelection1(chart[Scatter]), f, TRUE)
    IN /\ Room(Scatter, "raw", thr)
       /\ Publish(Scatter, "raw", m, thr)
       /\ chart' = [chart EXCEPT ![Scatter] =
                      IF Raised(Scatter, "raw", thr) THEN s1 ELSE [s1 EXCEPT !.sel = f]]
       /\ last' = PubLast("ClickDot", Scatter, f, "raw", m, thr,
                          PreOf(chart[Scatter].sel, f), s1)
       /\ UNCHANGED <<nested, bcOK, tracked, boot>>

\* chart1/chart2/chart3: click on the svg outside every dot or bar
ClickBackground(w) ==
  /\ w \in tracked
  /\ \E thr \in FaultSets(w, "bus") :
    /\ Room(w, "bus", thr)
    /\ Publish(w, "bus", ClearMsg(w), thr)
    /\ chart' = [chart EXCEPT ![w] =
                   IF w = Scatter THEN clearSelection1(@) ELSE clearSelection2(@)]
    /\ last' = PubLast("ClickBackground", w, "", "bus", ClearMsg(w), thr,
                       PreOf(chart[w].sel, ""), chart'[w])
    /\ UNCHANGED <<nested, bcOK, tracked, boot>>

\* the click handler without the toggle branch
ClickBar_noToggle(w, f) ==
  /\ w \in tracked
  /\ f \in Shown(w, chart[w].filt)
  /\ \E thr \in FaultSets(w, "bus") :
       /\ Room(w, "bus", thr)
       /\ Publish(w, "bus", FeatureClick2(f), thr)
       /\ chart' = [chart EXCEPT ![w] = highlightField2(w, @, f)]
       /\ last' = PubLast("ClickBar", w, f, "bus", FeatureClick2(f), thr,
                          PreOf(chart[w].sel, f), chart'[w])
       /\ UNCHANGED <<nested, bcOK, tracked, boot>>

\* the click on a bar reaches the svg handler and is taken for a click on
\* the background
ClickBar_asBackground(w, f) ==
  /\ w \in tracked
  /\ f \in Shown(w, chart[w].filt)
  /\ \E thr \in FaultSets(w, "bus") :
       /\ Room(w, "bus", thr)
       /\ Publish(w, "bus", ClearMsg(w), thr)
       /\ chart' = [chart EXCEPT ![w] = clearSelection2(@)]
       /\ last' = PubLast("ClickBar", w, f, "bus", ClearMsg(w), thr,
                          PreOf(chart[w].sel, f), chart'[w])
       /\ UNCHANGED <<nested, bcOK, tracked, boot>>

\* chart2/chart3: click on a bar (event.stopPropagation(), and the svg handler
\* returns when the target is inside a '.bar')
ClickBar(w, f) ==
  /\ w \in tracked
  /\ f \in Shown(w, chart[w].filt)
  /\ IF chart[w].sel = f
     THEN /\ chart' = [chart EXCEPT ![w] = clearSelection2(@)]
          /\ last' = [NoLast EXCEPT !.op = "ClickBar", !.w = w, !.arg = f,
                                     !.pre = PreOf(chart[w].sel, f)]
          /\ UNCHANGED <<winQ, bcQ, nested, bcOK, tracked, boot>>
     ELSE \E thr \in FaultSets(w, "bus") :
          /\ Room(w, "bus", thr)
          /\ Publish(w, "bus", FeatureClick2(f), thr)
          /\ chart' = [chart EXCEPT ![w] = highlightField2(w, @, f)]
          /\ last' = PubLast("ClickBar", w, f, "bus", FeatureClick2(f), thr,
                          PreOf(chart[w].sel, f), chart'[w])
          /\ UNCHANGED <<nested, bcOK, tracked, boot>>

\* chart2: crop button
ToggleFilter(w, k) ==
  /\ w \in tracked
  /\ k \in AllKeys(w)
  /\ chart' = [chart EXCEPT ![w] =
       Redrawn([@ EXCEPT !.filt = IF k \in @ THEN @ \ {k} ELSE @ \cup {k}])]
  /\ last' = [NoLast EXCEPT !.op = "ToggleFilter", !.w = w]
  /\ UNCHANGED <<winQ, bcQ, nested, bcOK, tracked, boot>>

\* chart2.selectAllCrops
SelectAll(w) ==
  /\ w \in tracked
  /\ chart' = [chart EXCEPT ![w] = Redrawn([@ EXCEPT !.filt = AllKeys(w)])]
  /\ last' = [NoLast EXCEPT !.op = "SelectAll", !.w = w]
  /\ UNCHANGED <<winQ, bcQ, nested, bcOK, tracked, boot>>

\* chart2.deselectAllCrops
DeselectAll(w) ==
  /\ w \in tracked
  /\ chart' = [chart EXCEPT ![w] = Redrawn([@ EXCEPT !.filt = {}])]
  /\ last' = [NoLast EXCEPT !.op = "DeselectAll", !.w = w]
  /\ UNCHANGED <<winQ, bcQ, nested, bcOK, tracked, boot>>

\* window resize: the chart is drawn again
Resize(w) ==
  /\ w \in tracked
  /\ chart' = [chart EXCEPT ![w] = Redrawn(@)]
  /\ last' = [NoLast EXCEPT !.op = "Resize", !.w = w]
  /\ UNCHANGED <<winQ, bcQ, nested, bcOK, tracked, boot>>

\* -------------------------------------------------------------- selectors
\* LOCATIONS of the selectors, as the Python side validates them: every
\* location has a name and bounds [west, south, east, north]; the farm key
\* is optional (the last location has none).  Coordinates are multiples of
\* ten, so that the padding and the midpoints are whole numbers.
Farm(f) == CASE f = "F1" -> "Acme" [] f = "F2" -> "Bolt" [] OTHER -> Undef
LocBounds(f) ==
  CASE f = "F1" -> <<0, 0, 10, 10>>
    [] f = "F2" -> <<20, 0, 40, 10>>
    [] OTHER -> <<0, 20, 10, 40>>
Location(f) == [name |-> f, farm |-> Farm(f), bounds |-> LocBounds(f)]
LOCATIONS == <<Location("F1"), Location("F2"), Location("F3")>>
\* bcg_dropdown.py, the farms of the farm dropdown: loc.get("farm", "Unknown")
FARMS ==
  {IF LOCATIONS[i].farm = Undef THEN "Unknown" ELSE LOCATIONS[i].farm :
     i \in 1..Len(LOCATIONS)}

\* addPaddingToBounds(bounds, paddingPercent = 10)
PaddingPercent == 10
addPaddingToBounds(b) ==
  LET padX == ((b[3] - b[1]) * PaddingPercent) \div 100
      padY == ((b[4] - b[2]) * PaddingPercent) \div 100
  IN <<b[1] - padX, b[2] - padY, b[3] + padX, b[4] + padY>>
\* [(west + east) / 2, (south + north) / 2]
Center(b) == <<(b[1] + b[3]) \div 2, (b[2] + b[4]) \div 2>>
Min(a, b) == IF a < b THEN a ELSE b
Max(a, b) == IF a > b THEN a ELSE b
\* the loop of getFarmBounds and getAllBounds over a list of locations
RECURSIVE BoundsLoop(_, _, _)
BoundsLoop(locs, i, acc) ==
  IF i > Len(locs) THEN acc
  ELSE LET b == locs[i].bounds
       IN BoundsLoop(locs, i + 1,
            <<Min(acc[1], b[1]), Min(acc[2], b[2]), Max(acc[3], b[3]), Max(acc[4], b[4])>>)
IsInFarm(loc, farm) == loc.farm = farm
\* bcg_dropdown.py getFarmBounds
getFarmBounds(farm) ==
  LET fieldsInFarm == SelectSeq(LOCATIONS, LAMBDA loc : IsInFarm(loc, farm))
  IN IF Len(fieldsInFarm) = 0 THEN Null
     ELSE addPaddingToBounds(BoundsLoop(fieldsInFarm, 2, fieldsInFarm[1].bounds))
\* bcg_dropdown.py getAllBounds
getAllBounds ==
  IF Len(LOCATIONS) = 0 THEN Null
  ELSE addPaddingToBounds(BoundsLoop(LOCATIONS, 2, LOCATIONS[1].bounds))

LocationMsg(w, selType, loc) ==
  Msg("location_change", Undef, ComponentId(w), NoProps, NoProps, selType, loc)

\* the message of selector.py sendLocation(index)
SelectorLocation(i) ==
  LocationMsg(Selector, Undef,
    [NoLoc EXCEPT !.name = LOCATIONS[i].name, !.bounds = LOCATIONS[i].bounds,
                  !.center = Center(LOCATIONS[i].bounds)])
\* the message of bcg_dropdown.py sendLocation(index)
FieldLocation(i) ==
  LET bounds == addPaddingToBounds(LOCATIONS[i].bounds)
  IN LocationMsg(Dropdown, "field",
       [name |-> LOCATIONS[i].name, field |-> LOCATIONS[i].name,
        farm |-> LOCATIONS[i].farm, bounds |-> bounds, center |-> Center(bounds)])
\* the message of bcg_dropdown.py sendFarmBounds(farm)
FarmLocation(farm) ==
  LET bounds == getFarmBounds(farm)
  IN LocationMsg(Dropdown, "farm",
       [NoLoc EXCEPT !.name = farm, !.farm = farm, !.bounds = bounds,
                     !.center = Center(bounds)])
\* the message of bcg_dropdown.py sendAllFieldsBounds()
AllFieldsLocation ==
  LocationMsg(Dropdown, Undef,
    [NoLoc EXCEPT !.name = "All Fields", !.bounds = getAllBounds,
                  !.center = Center(getAllBounds)])

\* busSend of a selector
SelectorSend(op, w, arg, m) ==
  /\ w \in tracked
  /\ \E thr \in FaultSets(w, "sel") :
    /\ Room(w, "sel", thr)
    /\ Publish(w, "sel", m, thr)
    /\ last' = PubLast(op, w, arg, "sel", m, thr, "", [sel |-> Null, hl |-> {}])
    /\ UNCHANGED <<chart, nested, bcOK, tracked>>
\* a handler of a selector that returns before busSend
SelectorSilent(op, w, arg) ==
  /\ w \in tracked
  /\ last' = [NoLast EXCEPT !.op = op, !.w = w, !.arg = arg]
  /\ UNCHANGED <<chart, winQ, bcQ, nested, bcOK, tracked>>

SelectorPublish(op, w, arg, m) == SelectorSend(op, w, arg, m) /\ UNCHANGED boot

\* selector.py: change of the dropdown -> sendLocation(index)
SelectLocation(i) ==
  SelectorPublish("SelectLocation", Selector, LOCATIONS[i].name, SelectorLocation(i))

\* bcg_dropdown.py: change of the field dropdown to a field -> sendLocation(index)
SelectField(i) ==
  SelectorPublish("SelectField", Dropdown, LOCATIONS[i].name, FieldLocation(i))

\* bcg_dropdown.py: change of the farm dropdown to a farm -> sendFarmBounds(farm),
\* which returns when getFarmBounds finds no location of that farm
SelectFarm(farm) ==
  IF getFarmBounds(farm) = Null
  THEN SelectorSilent("SelectFarm", Dropdown, farm) /\ UNCHANGED boot
  ELSE SelectorPublish("SelectFarm", Dropdown, farm, FarmLocation(farm))

\* bcg_dropdown.py: 'All Farms' or 'All Fields' chosen -> sendAllFieldsBounds()
SelectAllFields ==
  SelectorPublish("SelectAllFields", Dropdown, "", AllFieldsLocation)

\* LOCATIONS.findIndex(loc => loc.name === name), counted from 1; 0: none
RECURSIVE FindIndexLoop(_, _)
FindIndexLoop(name, i) ==
  IF i > Len(LOCATIONS) THEN 0
  ELSE IF LOCATIONS[i].name = name THEN i ELSE FindIndexLoop(name, i + 1)
FindIndex(name) == FindIndexLoop(name, 1)

\* the index the timer set at load sends: selector.py starts from the first
\* location, bcg_dropdown.py from '' (0 here: nothing is sent)
TargetIndex(w, default) ==
  LET start == IF w = Selector THEN 1 ELSE 0
  IN IF ~Falsy(default) /\ FindIndex(default) > 0 THEN FindIndex(default) ELSE start

\* the dropdown falls back to the first location like selector.py does
AutoSelect_firstLocation(w) ==
  /\ w \in tracked \cap Selectors
  /\ boot[w] # "fired"
  /\ boot' = [boot EXCEPT ![w] = "fired"]
  /\ LET i == TargetIndex(Selector, boot[w])
     IN SelectorSend("AutoSelect", w, boot[w],
                     IF w = Selector THEN SelectorLocation(i) ELSE FieldLocation(i))

\* selector.py / bcg_dropdown.py: the setTimeout callback set at load
AutoSelect(w) ==
  /\ w \in tracked \cap Selectors
  /\ boot[w] # "fired"
  /\ boot' = [boot EXCEPT ![w] = "fired"]
  /\ LET i == TargetIndex(w, boot[w])
     IN IF i = 0 THEN SelectorSilent("AutoSelect", w, boot[w])
        ELSE SelectorSend("AutoSelect", w, boot[w],
                          IF w = Selector THEN SelectorLocation(i) ELSE FieldLocation(i))

\* --------------------------------------------------------------- delivery
\* window 'message' listener: JSON.parse when event.data is a string, then
\* handleMessage, all inside try/catch.  "obj" is the message object, "json"
\* its JSON text, "null" a falsy payload, "text" a string that is not JSON:
\* JSON.parse throws and the listener swallows it.
Parses(p) == p.repr # "text"
\* JSON.parse of the text JSON.stringify(m)
JsonRoundTrip(m) ==
  [m EXCEPT !.props = [k \in IdKeys |-> JsonValue(m.props[k])],
            !.top = [k \in IdKeys |-> JsonValue(m.top[k])]]
Decode(p) ==
  IF p.repr = "obj" THEN p.m
  ELSE IF p.repr = "json" THEN JsonRoundTrip(p.m)
  ELSE NoMsg

OnWindowMessage(w, s, p) ==
  IF Parses(p) THEN handleMessage(w, s, Decode(p)) ELSE s

\* ev.data read as a message without parsing: a string has none of the fields
DataAsMsg(p) == IF p.repr = "obj" THEN p.m ELSE NoMsg

\* BroadcastChannel onmessage.  chart1 registers handleMessage itself, so it
\* is called with the MessageEvent; chart2/chart3 pass ev.data.
OnBroadcast(w, s, p) ==
  IF w = Scatter THEN handleMessage1(s, EventAsMsg)
  ELSE handleMessage2(w, s, DataAsMsg(p))

DeliverLast(op, w, path, p, pre) ==
  [NoLast EXCEPT !.op = op, !.w = w, !.path = path, !.pkt = p, !.pre = pre,
                 !.pubs = last.pubs]

DeliverWin(w) ==
  /\ winQ[w] # <<>>
  /\ chart' = [chart EXCEPT ![w] = OnWindowMessage(w, @, Head(winQ[w]))]
  /\ winQ' = [winQ EXCEPT ![w] = Tail(@)]
  /\ last' = DeliverLast("Deliver", w, "win", Head(winQ[w]),
                          PreOf(chart[w].sel, chart'[w].sel))
  /\ UNCHANGED <<bcQ, nested, bcOK, tracked, boot>>

\* the message at the head of the channel queue of w is dispatched to bc.onmessage
DeliverBC(w) ==
  /\ bcQ[w] # <<>>
  /\ chart' = [chart EXCEPT ![w] = OnBroadcast(w, @, Head(bcQ[w]))]
  /\ bcQ' = [bcQ EXCEPT ![w] = Tail(@)]
  /\ last' = DeliverLast("Deliver", w, "bc", Head(bcQ[w]),
                          PreOf(chart[w].sel, chart'[w].sel))
  /\ UNCHANGED <<winQ, nested, bcOK, tracked, boot>>

\* ------------------------------------------- traffic from the surroundings
\* What instances of the five widgets publish, as it reaches a followed
\* widget from the surroundings: sent by an instance that is not followed, or
\* handed back by the host page (window.parent), which every publish posts
\* to.  On the BroadcastChannel it arrives as an object, on the window path
\* in the representation the publishing function posts.
PublishedBy(v) ==
  CASE v = Scatter ->
         {Packet("obj", FeatureClick1(f), v) : f \in Fields}
         \cup {Packet("json", ClearMsg(v), v)}
    [] v \in Bars ->
         {Packet("json", FeatureClick2(f), v) : f \in Fields}
         \cup {Packet("json", ClearMsg(v), v)}
    [] v = Selector ->
         {Packet("json", SelectorLocation(i), v) : i \in 1..Len(LOCATIONS)}
    [] OTHER ->
         {Packet("json", FieldLocation(i), v) : i \in 1..Len(LOCATIONS)}
         \cup {Packet("json", FarmLocation(g), v) : g \in {h \in FARMS : getFarmBounds(h) # Null}}
         \cup {Packet("json", AllFieldsLocation, v)}

PeerPackets(w) == UNION {PublishedBy(v) : v \in Widgets}

\* Messages of other origin (the map, unrelated scripts): feature_click-shaped
\* with the given properties["Field Name"], msg["Field Name"], properties["name"]
External == "external"
Foreign(t, pf, tf, pn) ==
  Msg(t, "map", Undef, [NoProps EXCEPT !["Field Name"] = pf, !["name"] = pn],
      [NoProps EXCEPT !["Field Name"] = tf], Undef, NoLoc)
ForeignMsgs ==
  {Foreign("feature_click", pf, Undef, Undef) : pf \in {"F1", "F9", Undef, Null, Empty, Blank, Zero}}
  \cup {Foreign("feature_click", Undef, "F1", Undef), Foreign("feature_click", Null, Null, Undef),
        Foreign("feature_click", Empty, "F1", Undef),
        Foreign("feature_click", Undef, Undef, "F2"), Foreign("hex_click", "F1", Undef, Undef)}
  \cup {Foreign(t, Undef, Undef, Undef) :
          t \in {"clear_selection", "feature_deselect", "bogus", Undef}}
  \cup {[Foreign(Undef, "F1", Undef, Undef) EXCEPT !.mtype = mt] :
          mt \in {"clear_selection", "feature_click"}}
  \cup {Foreign(t, "F1", Undef, Undef) : t \in {"bogus", Undef}}
  \cup {Foreign("feature_click", Inf, Undef, Undef)}
ForeignPackets ==
  {Packet("obj", m, External) : m \in ForeignMsgs}
  \cup {Packet("json", Foreign(t, "F1", Undef, Undef), External) :
          t \in {"feature_click", "clear_selection"}}
  \cup {Packet("json", Foreign("feature_click", Inf, Undef, Undef), External)}
  \cup {Packet(r, NoMsg, External) : r \in {"text", "null"}}

\* The BroadcastChannel carries only what pages of the same origin post on
\* the same channel name: the widgets and the map.
ChannelPackets ==
  {Packet("obj", Foreign(t, "F1", Undef, Undef), External) :
     t \in {"feature_click", "hex_click", "clear_selection"}}
  \cup {Packet("null", NoMsg, External)}

\* a message of the surroundings is dispatched to the window listener of w
\* (it counts as in flight while it is dispatched)
InboundWin(w, p) ==
  /\ w \in tracked
  /\ InFlight(w) < MaxInFlight
  /\ chart' = [chart EXCEPT ![w] = OnWindowMessage(w, @, p)]
  /\ last' = DeliverLast("Inbound", w, "win", p, PreOf(chart[w].sel, chart'[w].sel))
  /\ UNCHANGED <<winQ, bcQ, nested, bcOK, tracked, boot>>

\* a message of the surroundings is dispatched to bc.onmessage of w
InboundBC(w, p) ==
  /\ w \in tracked
  /\ bcOK
  /\ InFlight(w) < MaxInFlight
  /\ chart' = [chart EXCEPT ![w] = OnBroadcast(w, @, [p EXCEPT !.repr = "obj"])]
  /\ last' = DeliverLast("Inbound", w, "bc", [p EXCEPT !.repr = "obj"],
                          PreOf(chart[w].sel, chart'[w].sel))
  /\ UNCHANGED <<winQ, bcQ, nested, bcOK, tracked, boot>>

\* ---------------------------------------------------------- specification
Next ==
  \/ \E f \in AllData(Scatter) : ClickDot(f)
  \/ \E w \in Charts : ClickBackground(w)
  \/ \E w \in Bars, f \in Fields : ClickBar(w, f)
  \/ \E k \in AllKeys(Bar2) : ToggleFilter(Bar2, k)
  \/ SelectAll(Bar2)
  \/ DeselectAll(Bar2)
  \/ \E w \in Charts : Resize(w)
  \/ \E i \in 1..Len(LOCATIONS) : SelectLocation(i)
  \/ \E i \in 1..Len(LOCATIONS) : SelectField(i)
  \/ \E farm \in FARMS : SelectFarm(farm)
  \/ SelectAllFields
  \/ \E w \in Selectors : AutoSelect(w)
  \/ \E w \in Charts : DeliverWin(w)
  \/ \E w \in Charts : \E p \in PeerPackets(w) \cup ForeignPackets : InboundWin(w, p)
  \/ \E w \in Charts : \E p \in PeerPackets(w) \cup ChannelPackets : InboundBC(w, p)

Spec == Init /\ [][Next]_vars

\* ------------------------------------------------ two charts side by side
\* Two chart widgets in sibling frames of one page, no other traffic.  The
\* user acts on one chart at a time, after everything the previous
\* interaction caused has been dispatched, and no send throws.
ChartPairs == {{a, b} : a, b \in Charts} \ {{c} : c \in Charts}

InitPair ==
  /\ chart = [w \in Charts |->
               [sel |-> Null, hl |-> {}, dm |-> {}, hist |-> {}, filt |-> InitFilter(w)]]
  /\ winQ = [w \in Charts |-> <<>>]
  /\ bcQ = [w \in Charts |-> <<>>]
  /\ nested \in BOOLEAN
  /\ bcOK \in BOOLEAN
  /\ nested => bcOK
  /\ tracked \in ChartPairs
  /\ boot \in [tracked \cap Selectors -> DefaultNames]
  /\ last = NoLast

UserDot == Quiet /\ \E f \in AllData(Scatter) : ClickDot(f) /\ ~last'.faulty
UserBackground == Quiet /\ \E w \in Charts : ClickBackground(w) /\ ~last'.faulty
UserBar == Quiet /\ \E w \in Bars, f \in Fields : ClickBar(w, f) /\ ~last'.faulty
UserFilter == Quiet /\ \E k \in AllKeys(Bar2) : ToggleFilter(Bar2, k)

NextPair ==
  \/ UserDot
  \/ UserBackground
  \/ UserBar
  \/ UserFilter
  \/ \E w \in Charts : DeliverWin(w)
  \/ \E w \in Charts : DeliverBC(w)

SpecPair == InitPair /\ [][NextPair]_vars

\* The same two charts, the user clicking without waiting: a second click
\* may come while copies of the message of the first are still in flight
\* (two publishes at most before the page is quiet again).
Burst == Quiet \/ Len(last.pubs) < 2
BurstDot == Burst /\ \E f \in AllData(Scatter) : ClickDot(f) /\ ~last'.faulty
BurstBackground == Burst /\ \E w \in Charts : ClickBackground(w) /\ ~last'.faulty
BurstBar == Burst /\ \E w \in Bars, f \in Fields : ClickBar(w, f) /\ ~last'.faulty

NextRace ==
  \/ BurstDot
  \/ BurstBackground
  \/ BurstBar
  \/ \E w \in Charts : DeliverWin(w)
  \/ \E w \in Charts : DeliverBC(w)

SpecRace == InitPair /\ [][NextRace]_vars

\* ------------------------------------------------------------- properties
\* vocabulary of the properties
\* the handler that ran last was an inbound handler and was given a message
Delivered(l) == l.op \in {"Deliver", "Inbound"} /\ l.pkt.repr \in {"obj", "json"}
\* the state the same dispatch yields when it is made once more
Redeliver(l, s) ==
  IF l.path = "bc" THEN OnBroadcast(l.w, s, l.pkt) ELSE OnWindowMessage(l.w, s, l.pkt)
\* no entity carries 'highlighted' or 'dimmed'
Undecorated(s) == s.hl = {} /\ s.dm = {} /\ s.hist = {}
\* entity x is highlighted and every other entity on display is dimmed
Decorated(w, s, x) ==
  /\ s.hl = {x} \cap Shown(w, s.filt)
  /\ s.dm = Shown(w, s.filt) \ {x}
\* the identity fields chart w recognizes
IdFieldsOf(w) ==
  IF w = Scatter THEN {ID_FIELDS1[i] : i \in 1..Len(ID_FIELDS1)}
  ELSE {ID_FIELDS2[i] : i \in 1..Len(ID_FIELDS2)}
\* every recognized identity field is missing, null or empty, in properties
\* and at the top level
NoIdentity(w, m) ==
  \A k \in IdFieldsOf(w) :
    m.props[k] \in {Undef, Null, Empty} /\ m.top[k] \in {Undef, Null, Empty}

\* C1: when a feature_click on x published by another chart instance is
\* dispatched to a chart that has entity x, that chart is in Selected(x)
\* afterwards, x highlighted and every other entity dimmed - for every pair
\* of chart kinds as publisher and receiver.
C1_Propagation ==
  [][(Delivered(last') /\ last'.pkt.origin \in Charts \ {last'.w}
        /\ MsgType(last'.pkt.m) = "feature_click"
        /\ last'.pkt.m.props["Field Name"] \in AllData(last'.w))
      => /\ chart'[last'.w].sel = last'.pkt.m.props["Field Name"]
         /\ Decorated(last'.w, chart'[last'.w], last'.pkt.m.props["Field Name"])]_vars

\* C2: a message that comes back to the widget that published it, on the
\* window path or on the BroadcastChannel, by its own post or by a relay,
\* changes neither the selection nor the decoration of that widget.
C2_EchoSuppressed ==
  [][(Delivered(last') /\ last'.pkt.origin = last'.w)
      => chart'[last'.w] = chart[last'.w]]_vars
\* an echo of the widget's own clear_selection was dispatched while an
\* entity was selected
C2_Witness ==
  /\ Delivered(last) /\ last.pkt.origin = last.w
  /\ MsgType(last.pkt.m) = "clear_selection"
  /\ last.pre = "same" /\ chart[last.w].sel \in Fields

\* C3: the echo guard discards a message only when the receiving instance
\* itself published it; a message of any other instance passes the guard.
C3_GuardOnlyOwn ==
  [][(Delivered(last') /\ last'.path = "win" /\ EchoGuard(last'.w, Decode(last'.pkt)))
      => last'.pkt.origin = last'.w]_vars

\* C4: an inbound clear_selection or feature_deselect that is not an echo
\* leaves the chart Idle with no entity highlighted or dimmed, in every
\* state, and dispatching it again changes nothing.
C4_ClearIdempotent ==
  [][(Delivered(last') /\ last'.pkt.origin # last'.w
        /\ MsgType(last'.pkt.m) \in {"clear_selection", "feature_deselect"})
      => /\ chart'[last'.w].sel = Null
         /\ Undecorated(chart'[last'.w])
         /\ Redeliver(last', chart'[last'.w]) = chart'[last'.w]]_vars

\* C5: when a clear_selection published by a bar chart is dispatched to a
\* peer, scatter plot or other bar chart, the peer is Idle afterwards
\* whatever it had selected, and a second dispatch changes nothing.
C5_GlobalClear ==
  [][(Delivered(last') /\ last'.pkt.origin \in Bars \ {last'.w}
        /\ last'.pkt.m = ClearMsg(last'.pkt.origin))
      => /\ chart'[last'.w].sel = Null
         /\ Redeliver(last', chart'[last'.w]).sel = Null]_vars

\* C6: when one send of a publish call throws, every other send the call
\* contains is still attempted.
C6_FaultIsolation ==
  last.faulty => last.attempted = last.steps

\* C7: no publish call raises to its caller; the dot-click handler of the
\* scatter plot always reaches the assignment of currentSelection.
C7_NeverRaises ==
  /\ ~last.raised
  /\ last.op = "ClickDot" => chart[Scatter].sel = last.arg

\* C8: an inbound feature_click with no recognized identity field leaves
\* selection and decoration as they were; an inbound message takes a chart
\* from Selected to Idle only when it is clear_selection or feature_deselect.
C8_AmbiguousIgnored ==
  [][Delivered(last') =>
      /\ (MsgType(last'.pkt.m) = "feature_click" /\ NoIdentity(last'.w, last'.pkt.m))
           => chart'[last'.w] = chart[last'.w]
      /\ (chart[last'.w].sel # Null /\ chart'[last'.w].sel = Null)
           => MsgType(last'.pkt.m) \in {"clear_selection", "feature_deselect"}]_vars
\* a feature_click without identity was dispatched to a chart that had an
\* entity selected
C8_Witness ==
  /\ Delivered(last) /\ last.pkt.origin # last.w
  /\ MsgType(last.pkt.m) = "feature_click" /\ NoIdentity(last.w, last.pkt.m)
  /\ last.pre = "same" /\ chart[last.w].sel \in Fields
  /\ Decorated(last.w, chart[last.w], chart[last.w].sel)

C10_ToggleLaw ==
  [][(last'.op = "ClickBar") =>
      /\ chart[last'.w].sel = Null
           => /\ chart'[last'.w].sel = last'.arg
              /\ chart'[last'.w].hl = {last'.arg}
              /\ chart'[last'.w].dm = Shown(last'.w, chart[last'.w].filt) \ {last'.arg}
      /\ (last.op = "ClickBar" /\ last.w = last'.w /\ last.arg = last'.arg /\ last.pre = "idle")
           => chart'[last'.w].sel = Null /\ Undecorated(chart'[last'.w])]_vars
\* the selected bar was clicked again and the chart is Idle
C10_Witness ==
  /\ last.op = "ClickBar" /\ last.pre = "same"
  /\ chart[last.w].sel = Null /\ Undecorated(chart[last.w])

\* C11: an inbound feature_click on id that is not an echo and names a
\* recognized identity, dispatched to a chart that is Idle or has another
\* entity selected, leaves the chart in Selected(id), id highlighted, every
\* other entity dimmed, and nothing of the previous selection highlighted.
C11_Replacement ==
  [][(Delivered(last') /\ last'.pkt.origin # last'.w
        /\ MsgType(last'.pkt.m) = "feature_click"
        /\ last'.pkt.m.props["Field Name"] \in Fields
        /\ chart[last'.w].sel # last'.pkt.m.props["Field Name"])
      => /\ chart'[last'.w].sel = last'.pkt.m.props["Field Name"]
         /\ Decorated(last'.w, chart'[last'.w], last'.pkt.m.props["Field Name"])
         /\ chart'[last'.w].hist \subseteq Bins(last'.pkt.m.props["Field Name"])]_vars

\* C12: with two charts side by side and the user acting on one chart at a
\* time, once every message an interaction caused has been dispatched the
\* two charts agree: both Idle or both Selected on the same id.
C12_QuiescentAgreement ==
  (Quiet /\ bcOK) => \A a, b \in tracked : chart[a].sel = chart[b].sel

\* C13: the handler on the BroadcastChannel path is given the payload the
\* sender posted, so a message of a widget dispatched on the channel leaves
\* the chart as the same message dispatched on the window path would.
C13_RawPayload ==
  [][(Delivered(last') /\ last'.path = "bc" /\ last'.pkt.origin \in Widgets)
      => chart'[last'.w] = OnWindowMessage(last'.w, chart[last'.w], last'.pkt)]_vars

\* C14: every publish call contains a send on each existing path: the
\* BroadcastChannel, the parent, the top window when it is not the parent,
\* and every sibling frame of the top window other than the sender.
C14_DeliveryCoverage ==
  last.steps # {} =>
    ((IF bcOK THEN {"bc"} ELSE {}) \cup {"parent"}
       \cup (IF nested THEN {"top"} ELSE {}) \cup (TopFrames \ {last.w}))
      \subseteq last.steps

\* C15: every message handed to the bus carries a non-empty fromComponent.
C15_FromComponent ==
  last.steps # {} => last.pkt.m.fromComponent \notin {Undef, Null, Empty}

\* C16: an inbound message without fromComponent is discarded: it changes
\* neither selection nor decoration, whatever its type and the state.
C16_NoSenderDiscarded ==
  [][(Delivered(last') /\ last'.pkt.m.fromComponent \in {Undef, Null, Empty})
      => chart'[last'.w] = chart[last'.w]]_vars

C18_MalformedDiscarded ==
  [][(/\ last'.op \in {"Deliver", "Inbound"}
      /\ \/ last'.pkt.repr \in {"text", "null"}
         \/ MsgType(last'.pkt.m) = Undef
         \/ last'.pkt.m.props["Field Name"] = Inf)
      => chart'[last'.w] = chart[last'.w]]_vars

\* C19 as stated: a message dispatched on the window path leaves the chart
\* as the same message in the other representation (object, JSON text)
\* would, for every message.
C19_ReprEquivalent ==
  [][(Delivered(last') /\ last'.path = "win")
      => chart'[last'.w] =
           OnWindowMessage(last'.w, chart[last'.w],
             [last'.pkt EXCEPT !.repr = IF @ = "obj" THEN "json" ELSE "obj"])]_vars

\* C20: in every user-interaction handler that publishes, currentSelection
\* and the decoration are already what the message describes when the
\* message is handed to the bus: the entity a feature_click names is the
\* current selection and the only highlighted entity, and a clear_selection
\* leaves a widget without selection and without decoration.
C20_LocalUpdateFirst ==
  (last.op \in {"ClickDot", "ClickBar", "ClickBackground"} /\ last.pkt # NoPkt)
    => IF MsgType(last.pkt.m) = "feature_click"
       THEN /\ last.pubSel = last.pkt.m.props["Field Name"]
            /\ last.pubHl = {last.pkt.m.props["Field Name"]}
       ELSE /\ last.pubSel = Null
            /\ last.pubHl = {}

\* C21: in every reachable state the decoration of a chart follows from its
\* currentSelection: none when it is null, otherwise the entities on display
\* with that identity highlighted and all others on display dimmed - also
\* after filter changes and resizes, which draw the chart again.
C21_DecorationDerivable ==
  \A w \in tracked \cap Charts :
    IF chart[w].sel = Null
    THEN chart[w].hl = {} /\ chart[w].dm = {}
    ELSE Decorated(w, chart[w], chart[w].sel)

\* C22: a widget to which a location_change with selectionType "farm" and
\* farm F is dispatched is in Selected(F) afterwards, whatever state it was in.
C22_FarmSelection ==
  [][(/\ Delivered(last') /\ last'.path = "win"
      /\ MsgType(last'.pkt.m) = "location_change"
      /\ last'.pkt.m.selectionType = "farm")
      => chart'[last'.w].sel = last'.pkt.m.location.farm]_vars

\* C23: a location_change without selectionType, dispatched on either path
\* to a chart in any state, leaves currentSelection and the decoration as
\* they were.
C23_LocationKeepsSelection ==
  [][(/\ Delivered(last')
      /\ MsgType(last'.pkt.m) = "location_change"
      /\ last'.pkt.m.selectionType = Undef)
      => chart'[last'.w] = chart[last'.w]]_vars
\* a location_change without selectionType was dispatched on the window path
\* to a bar chart that had an entity selected and highlighted
C23_Witness ==
  /\ Delivered(last) /\ last.path = "win" /\ last.w \in Bars
  /\ MsgType(last.pkt.m) = "location_change"
  /\ last.pkt.m.selectionType = Undef
  /\ last.pkt.m.location.name = "F1"
  /\ chart[last.w].sel = "F2" /\ chart[last.w].hl = {"F2"}

\* C24: a feature_click that names an entity the receiving chart does not
\* have leaves the decoration of that chart as it was: no entity becomes
\* highlighted or dimmed.
C24_UnknownEntityNoDecoration ==
  [][(/\ Delivered(last') /\ MsgType(last'.pkt.m) = "feature_click"
      /\ ~EchoGuard(last'.w, last'.pkt.m)
      /\ last'.pkt.m.props["Field Name"] \notin
            AllData(last'.w) \cup {Undef, Null, Empty, Blank, Zero, Inf})
      => /\ chart'[last'.w].hl = chart[last'.w].hl
         /\ chart'[last'.w].dm = chart[last'.w].dm]_vars

\* C27: a click on a dot or bar runs the entity handler only: it publishes
\* no clear_selection and, unless it toggles the selection off, leaves the
\* clicked entity highlighted.  A click elsewhere on the chart clears
\* selection and decoration and publishes clear_selection, from any state.
C27_OneHandlerPerClick ==
  /\ last.op \in {"ClickDot", "ClickBar"}
       => /\ last.pkt = NoPkt \/ MsgType(last.pkt.m) = "feature_click"
          /\ (last.op = "ClickDot" \/ last.pre # "same")
               => /\ last.arg \in chart[last.w].hl
                  /\ last.pkt # NoPkt
  /\ last.op = "ClickBackground"
       => /\ chart[last.w].sel = Null /\ Undecorated(chart[last.w])
          /\ MsgType(last.pkt.m) = "clear_selection"
          /\ last.attempted = last.steps
\* the background of a chart in Idle was clicked and clear_selection was
\* published
C27_Witness ==
  /\ last.op = "ClickBackground" /\ last.pre = "idle"
  /\ MsgType(last.pkt.m) = "clear_selection" /\ "parent" \in last.attempted

\* C28: the scatter plot and the bar charts treat every feature_click alike:
\* given the same message in the same state they all ignore it or all
\* select the same id.
C28_SameValidation ==
  [][(Delivered(last') /\ last'.path = "win"
        /\ MsgType(last'.pkt.m) = "feature_click"
        /\ last'.pkt.m.source \notin {SourceTag(c) : c \in Charts})
      => LET m == Decode(last'.pkt)
             idle == [sel |-> Null, hl |-> {}, dm |-> {}, hist |-> {}, filt |-> {}]
         IN \A b \in Bars :
              Str(handleMessage1(idle, m).sel) = Str(handleMessage2(b, idle, m).sel)]_vars

\* the selection a message asks for
SelOf(m) == IF MsgType(m) = "feature_click" THEN m.props["Field Name"] ELSE Null
\* the sends of the publishes recorded in pubs reach every other followed
\* chart, and none of these charts takes one of the messages for its own
Reaches ==
  /\ bcOK /\ ~nested
  /\ \A i \in 1..Len(last.pubs) : \A p \in tracked \ {last.pubs[i].w} :
        ~EchoGuard(p, last.pubs[i].m)

\* C25: a chart published m1 and then m2; once every copy of both is
\* dispatched, each peer shows the selection m2 asks for, in whatever order
\* the paths delivered.
C25_NoStaleOverride ==
  (/\ Quiet /\ Len(last.pubs) = 2 /\ Reaches
   /\ last.pubs[1].w = last.pubs[2].w)
    => \A p \in tracked \ {last.pubs[2].w} : chart[p].sel = SelOf(last.pubs[2].m)

\* C26: two charts each published a feature_click, for different entities,
\* the second before the page was quiet again; once every copy of both is
\* dispatched the charts hold the same selection.
C26_ConcurrentClicksConverge ==
  (/\ Quiet /\ Len(last.pubs) = 2 /\ Reaches
   /\ last.pubs[1].w # last.pubs[2].w
   /\ MsgType(last.pubs[1].m) = "feature_click"
   /\ MsgType(last.pubs[2].m) = "feature_click"
   /\ SelOf(last.pubs[1].m) # SelOf(last.pubs[2].m))
    => \A a, b \in tracked : chart[a].sel = chart[b].sel

\* bounds a enclose bounds b
Encloses(a, b) == a[1] <= b[1] /\ a[2] <= b[2] /\ a[3] >= b[3] /\ a[4] >= b[4]
\* c is the midpoint of bounds b
IsMidpoint(c, b) == 2 * c[1] = b[1] + b[3] /\ 2 * c[2] = b[2] + b[4]
LocationNames == {LOCATIONS[i].name : i \in 1..Len(LOCATIONS)}

\* C29: choosing farm F in the farm dropdown publishes a location_change
\* with the widget's componentId, selectionType "farm", location.farm =
\* location.name = F, bounds around the bounds of every location of that farm
\* and their midpoint as center; choosing 'All Farms' publishes one without
\* selectionType whose bounds are around the bounds of every location.
C29_FarmPublish ==
  /\ last.op = "SelectFarm"
       => /\ last.pkt # NoPkt
          /\ LET m == last.pkt.m
             IN /\ m.type = "location_change"
                /\ m.fromComponent = ComponentId(Dropdown)
                /\ m.selectionType = "farm"
                /\ m.location.farm = last.arg /\ m.location.name = last.arg
                /\ \A i \in 1..Len(LOCATIONS) :
                     LOCATIONS[i].farm = last.arg
                       => Encloses(m.location.bounds, LOCATIONS[i].bounds)
                /\ IsMidpoint(m.location.center, m.location.bounds)
  /\ last.op = "SelectAllFields"
       => /\ last.pkt # NoPkt
          /\ LET m == last.pkt.m
             IN /\ m.type = "location_change"
                /\ m.selectionType = Undef
                /\ \A i \in 1..Len(LOCATIONS) :
                     Encloses(m.location.bounds, LOCATIONS[i].bounds)

\* C30: the timer set at load runs once.  The location selector then
\* publishes a location_change for the location named default_location_name
\* if there is one and for the first location otherwise; the farm/field
\* dropdown publishes one for that location if there is one and nothing
\* otherwise.
C30_AutoPublish ==
  last.op = "AutoSelect"
    => /\ boot[last.w] = "fired"
       /\ IF last.arg \in LocationNames
          THEN /\ last.pkt # NoPkt
               /\ last.pkt.m.type = "location_change"
               /\ last.pkt.m.location.name = last.arg
          ELSE IF last.w = Selector
          THEN /\ last.pkt # NoPkt
               /\ last.pkt.m.type = "location_change"
               /\ last.pkt.m.location.name = LOCATIONS[1].name
          ELSE last.pkt = NoPkt
\* the timer of the farm/field dropdown ran with a default_location_name
\* that names no location, and nothing was published
C30_Witness ==
  /\ last.op = "AutoSelect" /\ last.w = Dropdown /\ last.arg = "ZZ"
  /\ last.pkt = NoPkt /\ boot[Dropdown] = "fired"

====
